---------------------------- MODULE Spec2Model ----------------------------
(***************************************************************************)
(* Model of the acquifer package (src/acquifer/__init__.py):               *)
(*   - IM03.metadata / IM04.metadata : filename decoders (pure functions), *)
(*   - IM.metadata.convertXY_PixToIM : pixel -> stage coordinates,         *)
(*   - IM.TCPIP                      : the version/status socket client.   *)
(* Three specifications share the module: SpecMetadata, SpecConvert and    *)
(* Spec (the TCPIP client).                                                *)
(***************************************************************************)
EXTENDS Integers, Sequences, FiniteSets, TLC

VARIABLES
    \* ---- metadata decoder
    model,        \* "IM03" or "IM04": the class whose metadata methods are called
    imageName,    \* the filename, a sequence of one-character strings
    called,       \* the last metadata method called ("none" before any call)
    result,       \* what that call returned or raised
    \* ---- coordinate converter
    cargs,        \* the arguments of convertXY_PixToIM
    cout,         \* its result (<<>> before the call)
    \* ---- TCPIP client
    client,       \* "none" | "connected" | "failed" (constructor raised)
    TCP_IP,       \* self._TCP_IP_
    TCP_PORT,     \* self._TCP_PORT_
    socket,       \* self.socket : the handle (0 = no socket yet)
    connects,     \* number of socket.connect attempts made
    serialized,   \* TRUE iff the callers serialize their calls on the client
    pc,           \* per caller: position inside getVersion/getStatus
    cur,          \* per caller: the method being run ("none" when idle)
    outer,        \* per caller: "str" while inside __str__, else "none"
    out,          \* per caller: local `out` (the bytes read by the last call)
    ret,          \* per caller: result of the last getVersion/getStatus
    strVersion,   \* per caller: __str__'s first format argument once evaluated
    strRet,       \* per caller: result of its last call when that was __str__
    events,       \* per caller: socket operations made by the current/last call
    wire,         \* every message written to the socket, in order, with its sender
    served,       \* number of wire messages the server has consumed
    inflight,     \* responses written by the server and not read yet
    calls         \* number of getVersion/getStatus calls started or committed to

metaVars == <<model, imageName, called, result>>
convVars == <<cargs, cout>>
tcpVars  == <<client, TCP_IP, TCP_PORT, socket, connects, serialized, pc, cur,
              outer, out, ret, strVersion, strRet, events, wire, served,
              inflight, calls>>
vars == <<metaVars, convVars, tcpVars>>

Min(a, b) == IF a < b THEN a ELSE b
Max(a, b) == IF a > b THEN a ELSE b

\* What a call produces: a returned value or a raised exception.
Return(v) == [kind |-> "return", val |-> v]
Raise(e)  == [kind |-> "raise", exc |-> e]
NoResult  == [kind |-> "none"]

(***************************************************************************)
(* Python sequence primitives.                                             *)
(***************************************************************************)
\* s[a:b] : indices are 0-based, negative ones count from the end, and both
\* are clamped to the sequence.
SliceIndex(i, n) == IF i < 0 THEN Max(i + n, 0) ELSE Min(i, n)
Slice(s, a, b) ==
    LET lo == SliceIndex(a, Len(s))
        hi == SliceIndex(b, Len(s))
    IN  IF lo >= hi THEN <<>> ELSE SubSeq(s, lo + 1, hi)

\* s[a:] : from a to the end.
SliceFrom(s, a) == Slice(s, a, Len(s))

\* s.find(x) for a one-element x: lowest 0-based index, -1 when absent.
Find(s, x) ==
    IF \E i \in 1..Len(s) : s[i] = x
    THEN (CHOOSE i \in 1..Len(s) : s[i] = x /\ \A j \in 1..(i - 1) : s[j] # x) - 1
    ELSE -1

Digits == <<"0", "1", "2", "3", "4", "5", "6", "7", "8", "9">>
ascii_uppercase ==
    <<"A", "B", "C", "D", "E", "F", "G", "H", "I", "J", "K", "L", "M",
      "N", "O", "P", "Q", "R", "S", "T", "U", "V", "W", "X", "Y", "Z">>

IsDigit(c) == \E i \in 1..10 : Digits[i] = c
DigitVal(c) == (CHOOSE i \in 1..10 : Digits[i] = c) - 1

RECURSIVE DigitsVal(_)
DigitsVal(s) ==
    IF s = <<>> THEN 0
    ELSE 10 * DigitsVal(SubSeq(s, 1, Len(s) - 1)) + DigitVal(s[Len(s)])

\* The text is an optional sign followed by at least one decimal digit: the
\* only numeric form over the characters of the filenames considered here
\* (digits, "-", upper-case letters).
IsSigned(s) == s # <<>> /\ s[1] \in {"-", "+"}
Unsigned(s) == IF IsSigned(s) THEN Tail(s) ELSE s
IsNumeral(s) == Unsigned(s) # <<>> /\ \A i \in 1..Len(Unsigned(s)) : IsDigit(Unsigned(s)[i])
NumeralVal(s) ==
    IF IsSigned(s) /\ s[1] = "-" THEN 0 - DigitsVal(Unsigned(s)) ELSE DigitsVal(Unsigned(s))

\* int(text)
int(s) == IF IsNumeral(s) THEN Return(NumeralVal(s)) ELSE Raise("ValueError")

\* string.ascii_uppercase.index(letter) ; the empty string is found at 0.
ascii_uppercase_index(letter) ==
    IF letter = <<>> THEN Return(0)
    ELSE IF \E i \in 1..26 : ascii_uppercase[i] = letter[1]
         THEN Return((CHOOSE i \in 1..26 : ascii_uppercase[i] = letter[1]) - 1)
         ELSE Raise("ValueError")

(***************************************************************************)
(* IEEE-754 binary64 values, as far as the pixel-size arithmetic needs     *)
(* them: a non-negative double is [m, e] with m its 53-bit significand     *)
(* (most significant bit first, leading bit 1) and value m * 2^e; zero has *)
(* the empty significand.  The representation is unique, so float equality *)
(* (dictionary membership) is equality of records.                         *)
(***************************************************************************)
FloatZero == [m |-> <<>>, e |-> 0]

RECURSIVE NatBits(_)
NatBits(n) == IF n = 0 THEN <<>> ELSE Append(NatBits(n \div 2), n % 2)

RECURSIVE BitsNat(_)
BitsNat(b) == IF b = <<>> THEN 0 ELSE 2 * BitsNat(SubSeq(b, 1, Len(b) - 1)) + b[Len(b)]

Zeros(n) == [i \in 1..n |-> 0]

\* bits + 1, same length; all ones wraps to all zeros (the caller handles it).
RECURSIVE IncBits(_)
IncBits(b) ==
    IF b = <<>> THEN <<>>
    ELSE IF b[Len(b)] = 0 THEN Append(SubSeq(b, 1, Len(b) - 1), 1)
         ELSE Append(IncBits(SubSeq(b, 1, Len(b) - 1)), 0)

\* Round the exact value (b + f) * 2^e to the nearest double, ties to even;
\* b has no leading zero, 0 <= f < 1 and sticky says whether f > 0.
RoundNearestEven(b, e, sticky) ==
    LET L == Len(b) IN
    IF L = 0 THEN FloatZero
    ELSE IF L <= 53 THEN [m |-> b \o Zeros(53 - L), e |-> e - (53 - L)]
    ELSE
        LET keep  == SubSeq(b, 1, 53)
            guard == b[54]
            rest  == sticky \/ \E i \in 55..L : b[i] = 1
            up    == guard = 1 /\ (rest \/ keep[53] = 1)
            e2    == e + (L - 53)
        IN  IF ~up THEN [m |-> keep, e |-> e2]
            ELSE IF \A i \in 1..53 : keep[i] = 1
                 THEN [m |-> <<1>> \o Zeros(52), e |-> e2 + 1]
                 ELSE [m |-> IncBits(keep), e |-> e2]

\* Binary long division: the significant bits of (acc + r/d) * 2^e, until 55
\* of them are known or the division is exact.
RECURSIVE DivBits(_, _, _, _)
DivBits(r, d, acc, e) ==
    IF r = 0 \/ Len(acc) >= 55 \/ e > 0 THEN RoundNearestEven(acc, e, r # 0)
    ELSE LET bit == IF 2 * r >= d THEN 1 ELSE 0
         IN  DivBits(2 * r - bit * d, d,
                     IF acc = <<>> /\ bit = 0 THEN <<>> ELSE Append(acc, bit),
                     e - 1)

\* The double nearest to n/d (n >= 0, d > 0): what a decimal literal such as
\* 0.650 (= 650/1000) denotes.
FloatOfRatio(n, d) == DivBits(n % d, d, NatBits(n \div d), 0)

\* The low i bits of b, times k, plus carry, for a small natural k.
RECURSIVE MulBitsUpTo(_, _, _, _)
MulBitsUpTo(b, i, k, carry) ==
    IF carry >= 0 /\ i = 0 THEN NatBits(carry)
    ELSE Append(MulBitsUpTo(b, i - 1, k, (b[i] * k + carry) \div 2), (b[i] * k + carry) % 2)

\* bits * k
MulBits(b, k) == MulBitsUpTo(b, Len(b), k, 0)

\* The significand without its trailing zeros (an odd natural for x # 0).
RECURSIVE OddPart(_)
OddPart(b) ==
    IF b = <<>> \/ b[Len(b)] = 1 THEN b ELSE OddPart(SubSeq(b, 1, Len(b) - 1))

StripLeadingZeros(b) ==
    IF \E i \in 1..Len(b) : b[i] = 1
    THEN SubSeq(b, CHOOSE i \in 1..Len(b) : b[i] = 1 /\ \A j \in 1..(i - 1) : b[j] = 0, Len(b))
    ELSE <<>>

\* x * y, correctly rounded.  x is a double whose odd part is small (the
\* integer read from a five-character field), y any double.
FloatMul(x, y) ==
    IF x.m = <<>> \/ y.m = <<>> THEN FloatZero
    ELSE LET xo == OddPart(x.m)
             xe == x.e + (Len(x.m) - Len(xo))
             p  == StripLeadingZeros(MulBits(y.m, BitsNat(xo)))
         IN  RoundNearestEven(p, xe + y.e, FALSE)

\* float(text) for the numerals above (no sign: a negative pixel field does
\* not occur in the inputs considered).
float(s) ==
    IF IsNumeral(s) /\ ~IsSigned(s)
    THEN Return(RoundNearestEven(NatBits(DigitsVal(s)), 0, FALSE))
    ELSE Raise("ValueError")

\* 10**-4 : int ** negative int is a float power; the result is the double
\* nearest to 1/10000.
TenPowMinus4 == FloatOfRatio(1, 10 * 10 * 10 * 10)

(***************************************************************************)
(* IM.metadata : the lookup tables shared by IM03.metadata and             *)
(* IM04.metadata (class attributes, inherited).                            *)
(***************************************************************************)
PixelSize_3_25  == FloatOfRatio(325, 100)      \* 3.25
PixelSize_1_625 == FloatOfRatio(1625, 1000)    \* 1.625
PixelSize_0_650 == FloatOfRatio(650, 1000)     \* 0.650
PixelSize_0_325 == FloatOfRatio(325, 1000)     \* 0.325

NA_0_06 == FloatOfRatio(6, 100)
NA_0_13 == FloatOfRatio(13, 100)
NA_0_3  == FloatOfRatio(3, 10)
NA_0_45 == FloatOfRatio(45, 100)
NA_0_6  == FloatOfRatio(6, 10)

pixelSizeToMag ==
    (PixelSize_3_25 :> 2) @@ (PixelSize_1_625 :> 4) @@
    (PixelSize_0_650 :> 10) @@ (PixelSize_0_325 :> 20)

pixelSizeToNA ==
    (PixelSize_3_25 :> NA_0_06) @@ (PixelSize_1_625 :> NA_0_13) @@
    (PixelSize_0_650 :> NA_0_3) @@ (PixelSize_0_325 :> NA_0_45)

magToNA ==
    (2 :> NA_0_06) @@ (4 :> NA_0_13) @@ (10 :> NA_0_3) @@ (20 :> NA_0_45) @@
    (40 :> NA_0_6)

\* The attributes of the classes IM03 and IM04 themselves: the two nested
\* classes.  The metadata methods are attributes of IM03.metadata and
\* IM04.metadata, not of IM03 and IM04.
IM03_attributes == {"metadata", "TCPIP"}
IM04_attributes == {"metadata", "TCPIP"}

\* v + 1 for a returned v; a raised exception propagates.
PlusOne(r) == IF r.kind = "return" THEN Return(r.val + 1) ELSE r

\* float(field) * 10**-4 ; a raised exception propagates.
TimesTenPowMinus4(r) ==
    IF r.kind = "return" THEN Return(FloatMul(r.val, TenPowMinus4)) ELSE r

\* `table[pixSize] if pixSize in table else raise KeyError(...)`, with an
\* exception raised while computing pixSize propagating.
LookupPixelSize(pixSize, table) ==
    IF pixSize.kind # "return" THEN pixSize
    ELSE IF pixSize.val \in DOMAIN table THEN Return(table[pixSize.val])
         ELSE Raise("KeyError")

(***************************************************************************)
(* IM03.metadata                                                           *)
(***************************************************************************)
IM03_getPixelSize_um(name) == TimesTenPowMinus4(float(Slice(name, 43, 48)))

\* The pixel size is asked of IM03, not of IM03.metadata.
IM03_getObjectiveMagnification(name) ==
    LookupPixelSize(IF "getPixelSize_um" \in IM03_attributes
                    THEN IM03_getPixelSize_um(name)
                    ELSE Raise("AttributeError"),
                    pixelSizeToMag)

IM03_getObjectiveNA(name) == LookupPixelSize(IM03_getPixelSize_um(name), pixelSizeToNA)

IM03_getWellId(name) == Return(Slice(name, 10, 14))

IM03_getWellColumn(name) == int(Slice(name, 11, 14))

IM03_getWellRow(name) == PlusOne(ascii_uppercase_index(Slice(name, 10, 11)))

\* Mutation: the character before the channel digit.
IM03_getChannelIndex_OffByOne(name) == int(Slice(name, 30, 31))

IM03_getChannelIndex(name) == int(Slice(name, 31, 32))

(***************************************************************************)
(* IM04.metadata                                                           *)
(***************************************************************************)
IM04_getPixelSize_um(name) == TimesTenPowMinus4(float(Slice(name, 34, 39)))

IM04_getObjectiveMagnification(name) ==
    LookupPixelSize(IM04_getPixelSize_um(name), pixelSizeToMag)

IM04_getObjectiveNA(name) == LookupPixelSize(IM04_getPixelSize_um(name), pixelSizeToNA)

IM04_getWellId(name) == Return(Slice(name, 1, 5))

IM04_getWellColumn(name) == int(Slice(name, 2, 5))

\* Mutation: the 0-based alphabet index, without the "+1".
IM04_getWellRow_ZeroBased(name) == ascii_uppercase_index(Slice(name, 1, 2))

IM04_getWellRow(name) == PlusOne(ascii_uppercase_index(Slice(name, 1, 2)))

IM04_getChannelIndex(name) == int(Slice(name, 22, 23))

(***************************************************************************)
(* The filenames the decoders are applied to: the two example filenames of *)
(* the class docstrings, the same with other well, channel and pixel-size  *)
(* fields, and a truncated name.                                           *)
(***************************************************************************)
ExampleIM03 ==
    <<"W", "E", "0", "0", "0", "0", "3", "-", "-", "-", "A", "0", "0", "3",
      "-", "-", "P", "O", "0", "1", "-", "-", "L", "O", "0", "0", "1", "-",
      "-", "C", "O", "6", "-", "-", "S", "L", "0", "1", "0", "-", "-", "P",
      "X", "1", "6", "2", "5", "0", "-", "-", "P", "W", "0", "0", "4", "0",
      "-", "-", "I", "N", "0", "0", "2", "0", "-", "-", "T", "M", "2", "4",
      "6", "-", "-", "X", "0", "3", "2", "2", "8", "1", "-", "-", "Y", "0",
      "1", "0", "9", "6", "3", "-", "-", "Z", "2", "1", "1", "8", "2", "5",
      "-", "-", "T", "1", "3", "7", "5", "4", "0", "4", "5", "3", "3", ".",
      "t", "i", "f">>

ExampleIM04 ==
    <<"-", "A", "0", "0", "1", "-", "-", "P", "O", "0", "1", "-", "-", "L",
      "O", "0", "0", "1", "-", "-", "C", "O", "6", "-", "-", "S", "L", "0",
      "0", "1", "-", "-", "P", "X", "3", "2", "5", "0", "0", "-", "-", "P",
      "W", "0", "0", "8", "0", "-", "-", "I", "N", "0", "0", "2", "0", "-",
      "-", "T", "M", "2", "4", "4", "-", "-", "X", "0", "1", "4", "5", "8",
      "0", "-", "-", "Y", "0", "1", "1", "2", "6", "2", "-", "-", "Z", "2",
      "0", "9", "5", "0", "1", "-", "-", "T", "1", "3", "7", "4", "0", "3",
      "1", "8", "0", "2", "-", "-", "W", "E", "0", "0", "0", "0", "1", ".",
      "t", "i", "f">>

WellFields == {<<"A", "0", "0", "3">>, <<"A", "0", "0", "1">>, <<"H", "0", "1", "2">>}
ChannelFields == {<<"1">>, <<"3">>, <<"5">>, <<"6">>}
PixelFields ==
    {<<"3", "2", "5", "0", "0">>, <<"1", "6", "2", "5", "0">>,
     <<"0", "6", "5", "0", "0">>, <<"0", "3", "2", "5", "0">>,
     <<"4", "0", "0", "0", "0">>, <<"0", "0", "0", "0", "0">>,
     <<"1", "6", "2", "5", "1">>, <<"P", "X", "1", "6", "2">>}

IM03Name(well, co, px) ==
    Slice(ExampleIM03, 0, 10) \o well \o Slice(ExampleIM03, 14, 31) \o co
        \o Slice(ExampleIM03, 32, 43) \o px \o SliceFrom(ExampleIM03, 48)

IM04Name(well, co, px) ==
    Slice(ExampleIM04, 0, 1) \o well \o Slice(ExampleIM04, 5, 22) \o co
        \o Slice(ExampleIM04, 23, 34) \o px \o SliceFrom(ExampleIM04, 39)

FileNames(m) ==
    IF m = "IM03"
    THEN {IM03Name(w, c, p) : w \in WellFields, c \in ChannelFields, p \in PixelFields}
             \cup {Slice(ExampleIM03, 0, 12)}
    ELSE {IM04Name(w, c, p) : w \in WellFields, c \in ChannelFields, p \in PixelFields}
             \cup {Slice(ExampleIM04, 0, 3)}

\* The PX field of a filename, as text (the characters after "--PX").
PixelField(m, name) == IF m = "IM03" THEN Slice(name, 43, 48) ELSE Slice(name, 34, 39)

(***************************************************************************)
(* The metadata decoder as a state machine: a filename is chosen and the   *)
(* static methods of the chosen class are called on it, in any order.      *)
(***************************************************************************)
Models == {"IM03", "IM04"}

CallMetadata(method, r) ==
    /\ called' = method
    /\ result' = r
    /\ UNCHANGED <<model, imageName, convVars, tcpVars>>

getWellId ==
    CallMetadata("getWellId",
        IF model = "IM03" THEN IM03_getWellId(imageName) ELSE IM04_getWellId(imageName))

getWellColumn ==
    CallMetadata("getWellColumn",
        IF model = "IM03" THEN IM03_getWellColumn(imageName)
        ELSE IM04_getWellColumn(imageName))

getWellRow ==
    CallMetadata("getWellRow",
        IF model = "IM03" THEN IM03_getWellRow(imageName) ELSE IM04_getWellRow(imageName))

getPixelSize_um ==
    CallMetadata("getPixelSize_um",
        IF model = "IM03" THEN IM03_getPixelSize_um(imageName)
        ELSE IM04_getPixelSize_um(imageName))

getObjectiveMagnification ==
    CallMetadata("getObjectiveMagnification",
        IF model = "IM03" THEN IM03_getObjectiveMagnification(imageName)
        ELSE IM04_getObjectiveMagnification(imageName))

getObjectiveNA ==
    CallMetadata("getObjectiveNA",
        IF model = "IM03" THEN IM03_getObjectiveNA(imageName)
        ELSE IM04_getObjectiveNA(imageName))

getChannelIndex ==
    CallMetadata("getChannelIndex",
        IF model = "IM03" THEN IM03_getChannelIndex(imageName)
        ELSE IM04_getChannelIndex(imageName))

NextMetadata ==
    \/ getWellId
    \/ getWellColumn
    \/ getWellRow
    \/ getPixelSize_um
    \/ getObjectiveMagnification
    \/ getObjectiveNA
    \/ getChannelIndex

(***************************************************************************)
(* IM.metadata.convertXY_PixToIM.  Lengths are exact decimals here: the    *)
(* pixel size is given in nanometres (PixelSize_um * 1000), the stage      *)
(* centre in nanometres (X0mm * 10^6), and the result is in micrometres    *)
(* (the millimetre value with its 3 decimals, * 1000).  True division by 2 *)
(* is kept exact by computing twice the value.                             *)
(***************************************************************************)
Default_Image_Width  == 2048
Default_Image_Height == 2048

\* round(v, 3) for v = twice / 2 nanometres: the nearest micrometre, ties to
\* the even one.
round3(twice) ==
    LET unit == 2 * 1000
        q == twice \div unit
        r == twice % unit
    IN  IF 2 * r > unit THEN q + 1
        ELSE IF 2 * r < unit THEN q
        ELSE IF q % 2 = 0 THEN q ELSE q + 1

\* Mutation: the Y offset without the "+ Image_Height" term.
convertXY_PixToIM_NoHeight(Xpix, Ypix, PixelSize_nm, X0nm, Y0nm, Image_Width, Image_Height) ==
    <<round3(2 * X0nm + (2 * Xpix - Image_Width) * PixelSize_nm),
      round3(2 * Y0nm + (0 - Image_Height - 2 * Ypix) * PixelSize_nm)>>

convertXY_PixToIM(Xpix, Ypix, PixelSize_nm, X0nm, Y0nm, Image_Width, Image_Height) ==
    LET \* 2 * (-Image_Width/2 + Xpix) * PixelSize_um * 10**-3, in nm
        dX2 == (0 - Image_Width + 2 * Xpix) * PixelSize_nm
        \* 2 * (-Image_Height/2 + Image_Height - Ypix) * PixelSize_um * 10**-3
        dY2 == (0 - Image_Height + 2 * Image_Height - 2 * Ypix) * PixelSize_nm
    IN  <<round3(2 * X0nm + dX2), round3(2 * Y0nm + dY2)>>

ConvertInputs ==
    [Xpix : {0, 1024, 2047}, Ypix : {0, 1024},
     PixelSize_nm : {325, 1625, 3250},
     X0nm : {32281000, 32281500, 14580499, 0 - 500},
     Y0nm : {10963000, 11262501},
     Image_Width : {Default_Image_Width, 1024},
     Image_Height : {Default_Image_Height, 1024}]

convertXY ==
    /\ cout' = convertXY_PixToIM(cargs.Xpix, cargs.Ypix, cargs.PixelSize_nm,
                                 cargs.X0nm, cargs.Y0nm,
                                 cargs.Image_Width, cargs.Image_Height)
    /\ UNCHANGED <<cargs, metaVars, tcpVars>>

NextConvert == convertXY

(***************************************************************************)
(* IM.TCPIP : the socket client.  Bytes are naturals below 256; a message  *)
(* on the wire is the byte string of one socket.send, sent whole (blocking *)
(* socket, messages of 4, 23 and 24 bytes).                                *)
(***************************************************************************)
STX == 2
ETX == 3
US  == 31
Default_TCP_PORT == 6261

\* b'\x00\x00\x00\x18' and b'\x02Get\x1fIMVersion\x1f10982031\x03'
getVersion_header  == <<0, 0, 0, 24>>
getVersion_payload ==
    <<STX, 71, 101, 116, US, 73, 77, 86, 101, 114, 115, 105, 111, 110, US,
      49, 48, 57, 56, 50, 48, 51, 49, ETX>>

\* b'\x00\x00\x00\x17' and b'\x02Get\x1fIMStatus\x1f19487256\x03'
getStatus_header  == <<0, 0, 0, 23>>
getStatus_payload ==
    <<STX, 71, 101, 116, US, 73, 77, 83, 116, 97, 116, 117, 115, US,
      49, 57, 52, 56, 55, 50, 53, 54, ETX>>

Header(method)  == IF method = "getVersion" THEN getVersion_header ELSE getStatus_header
Payload(method) == IF method = "getVersion" THEN getVersion_payload ELSE getStatus_payload

\* A str value: its code points.
Str(cps) == [str |-> cps]

\* bytes.decode("UTF-8"), for one- and two-byte encodings; any other byte is
\* taken as undecodable (no longer encoding occurs in the responses below).
RECURSIVE Utf8(_, _)
Utf8(b, i) ==
    IF i > Len(b) THEN <<>>
    ELSE IF b[i] < 128 THEN <<b[i]>> \o Utf8(b, i + 1)
    ELSE IF b[i] >= 194 /\ b[i] <= 223 /\ i < Len(b) /\ b[i + 1] >= 128 /\ b[i + 1] <= 191
         THEN <<(b[i] - 192) * 64 + (b[i + 1] - 128)>> \o Utf8(b, i + 2)
    ELSE <<0 - 1>>      \* undecodable from here on

decode(b) ==
    LET cps == Utf8(b, 1)
    IN  IF \E i \in 1..Len(cps) : cps[i] < 0 THEN Raise("UnicodeDecodeError")
        ELSE Return(Str(cps))

\* Lines 102-103 and 115-116: offset = out.find(b'\x1f') ;
\* out[offset+1:-1].decode(...)
\* Mutation: the slice starts at the separator, not after it.
getVersion_parse_FromSeparator(o) == decode(Slice(o, Find(o, US), 0 - 1))

getVersion_parse(o) == decode(Slice(o, Find(o, US) + 1, 0 - 1))
\* Mutation: a missing separator is reported as an error.
getStatus_parse_Strict(o) ==
    IF Find(o, US) < 0 THEN Raise("ProtocolError")
    ELSE decode(Slice(o, Find(o, US) + 1, 0 - 1))

getStatus_parse(o)  == decode(Slice(o, Find(o, US) + 1, 0 - 1))

\* "IM v{} at IP:{}, Port:{}, status:{}".format(...)
Format(version, ip, port, status) ==
    <<"IM v", version, " at IP:", ip, ", Port:", port, ", status:", status>>

MaxCalls == 3
Callers  == {1, 2}
Hosts    == {"127.0.0.1"}
Ports    == {Default_TCP_PORT}

\* The byte strings the server may answer with: a well-formed answer (one
\* separator, trailing ETX), one without separator, one with two separators
\* and a two-byte character, one undecodable, and the empty read of a closed
\* connection.
Responses ==
    {<<STX, 79, US, 82, 100, ETX>>,
     <<STX, 82, ETX>>,
     <<US, 195, 169, US, ETX>>,
     <<US, 255, ETX>>,
     <<>>}

SendEvent(data) == [ev |-> "send", data |-> data]
RecvEvent(r)    == [ev |-> "recv", to |-> r.to, re |-> r.re]

\* The callers serialize their calls: a call starts only when no other
\* caller is inside one.  n is the number of getVersion/getStatus calls the
\* call makes.
MayStart(c, n) ==
    /\ client = "connected"
    /\ pc[c] = "idle"
    /\ calls + n <= MaxCalls
    /\ serialized => \A d \in Callers : pc[d] = "idle"

(***************************************************************************)
(* IM.TCPIP.__init__                                                       *)
(***************************************************************************)
TCPIP_init(ip, port) ==
    /\ client = "none"
    /\ TCP_IP' = ip
    /\ TCP_PORT' = port
    /\ socket' = 1                    \* socket.socket(...)
    /\ connects' = connects + 1       \* self.socket.connect((TCP_IP, TCP_PORT))
    /\ \/ client' = "connected"
       \/ client' = "failed"          \* connect raised: no client object
    /\ UNCHANGED <<serialized, pc, cur, outer, out, ret, strVersion, strRet,
                   events, wire, served, inflight, calls, metaVars, convVars>>

(***************************************************************************)
(* The steps of a call: one per socket operation.                          *)
(***************************************************************************)
\* self.socket.send(header), the first statement of getVersion/getStatus
SendHeader(c, method, within) ==
    /\ cur' = [cur EXCEPT ![c] = method]
    /\ outer' = [outer EXCEPT ![c] = within]
    /\ wire' = Append(wire, [by |-> c, data |-> Header(method)])
    /\ events' = [events EXCEPT ![c] = <<SendEvent(Header(method))>>]
    /\ out' = [out EXCEPT ![c] = <<>>]
    /\ ret' = [ret EXCEPT ![c] = NoResult]
    /\ pc' = [pc EXCEPT ![c] = "payload"]

\* Mutation: the payload is sent again after the first send.
SendPayload_Twice(c, method) ==
    /\ pc[c] = "payload"
    /\ cur[c] = method
    /\ wire' = wire \o <<[by |-> c, data |-> Payload(method)],
                         [by |-> c, data |-> Payload(method)]>>
    /\ events' = [events EXCEPT ![c] =
           @ \o <<SendEvent(Payload(method)), SendEvent(Payload(method))>>]
    /\ pc' = [pc EXCEPT ![c] = "recv"]
    /\ UNCHANGED <<client, TCP_IP, TCP_PORT, socket, connects, serialized, cur,
                   outer, out, ret, strVersion, strRet, served, inflight, calls,
                   metaVars, convVars>>

\* self.socket.send(payload), the second statement
SendPayload(c, method) ==
    /\ pc[c] = "payload"
    /\ cur[c] = method
    /\ wire' = Append(wire, [by |-> c, data |-> Payload(method)])
    /\ events' = [events EXCEPT ![c] = Append(@, SendEvent(Payload(method)))]
    /\ pc' = [pc EXCEPT ![c] = "recv"]
    /\ UNCHANGED <<client, TCP_IP, TCP_PORT, socket, connects, serialized, cur,
                   outer, out, ret, strVersion, strRet, served, inflight, calls,
                   metaVars, convVars>>

\* self.__getFeedback__() : one blocking read of the socket, which returns
\* the next response whole.
getFeedback(c) ==
    /\ inflight # <<>>
    /\ out' = [out EXCEPT ![c] = Head(inflight).bytes]
    /\ inflight' = Tail(inflight)
    /\ events' = [events EXCEPT ![c] = Append(@, RecvEvent(Head(inflight)))]

\* What follows the read: the value is parsed and returned (or the decoding
\* error raised) to the caller, which is __str__ when within it.
Finish(c, r) ==
    /\ ret' = [ret EXCEPT ![c] = r]
    /\ IF outer[c] = "str" /\ cur[c] = "getVersion" /\ r.kind = "return"
       THEN /\ strVersion' = [strVersion EXCEPT ![c] = r.val]
            /\ pc' = [pc EXCEPT ![c] = "str_status"]
            /\ UNCHANGED <<outer, strRet>>
       ELSE /\ pc' = [pc EXCEPT ![c] = "idle"]
            /\ outer' = [outer EXCEPT ![c] = "none"]
            /\ strVersion' = [strVersion EXCEPT ![c] = <<>>]
            /\ strRet' = [strRet EXCEPT ![c] =
                   IF outer[c] # "str" THEN @
                   ELSE IF r.kind = "return"
                        THEN Return(Format(strVersion[c], TCP_IP, TCP_PORT, r.val))
                        ELSE r]

(***************************************************************************)
(* IM.TCPIP.getVersion                                                     *)
(***************************************************************************)
getVersion_call(c) ==
    /\ MayStart(c, 1)
    /\ SendHeader(c, "getVersion", "none")
    /\ calls' = calls + 1
    /\ strRet' = [strRet EXCEPT ![c] = NoResult]
    /\ UNCHANGED <<client, TCP_IP, TCP_PORT, socket, connects, serialized,
                   strVersion, served, inflight, metaVars, convVars>>

getVersion_sendPayload(c) == SendPayload(c, "getVersion")

getVersion_readFeedback(c) ==
    /\ pc[c] = "recv"
    /\ cur[c] = "getVersion"
    /\ getFeedback(c)
    /\ Finish(c, getVersion_parse(Head(inflight).bytes))
    /\ UNCHANGED <<client, TCP_IP, TCP_PORT, socket, connects, serialized, cur,
                   wire, served, calls, metaVars, convVars>>

(***************************************************************************)
(* IM.TCPIP.getStatus                                                      *)
(***************************************************************************)
\* Mutation: getStatus opens a fresh connection before sending.
getStatus_call_Reconnect(c) ==
    /\ MayStart(c, 1)
    /\ SendHeader(c, "getStatus", "none")
    /\ calls' = calls + 1
    /\ strRet' = [strRet EXCEPT ![c] = NoResult]
    /\ socket' = socket + 1
    /\ connects' = connects + 1
    /\ UNCHANGED <<client, TCP_IP, TCP_PORT, serialized,
                   strVersion, served, inflight, metaVars, convVars>>

getStatus_call(c) ==
    /\ MayStart(c, 1)
    /\ SendHeader(c, "getStatus", "none")
    /\ calls' = calls + 1
    /\ strRet' = [strRet EXCEPT ![c] = NoResult]
    /\ UNCHANGED <<client, TCP_IP, TCP_PORT, socket, connects, serialized,
                   strVersion, served, inflight, metaVars, convVars>>

\* Mutation: getStatus sends getVersion's payload after its own header.
getStatus_sendPayload_Version(c) ==
    /\ pc[c] = "payload"
    /\ cur[c] = "getStatus"
    /\ wire' = Append(wire, [by |-> c, data |-> getVersion_payload])
    /\ events' = [events EXCEPT ![c] = Append(@, SendEvent(getVersion_payload))]
    /\ pc' = [pc EXCEPT ![c] = "recv"]
    /\ UNCHANGED <<client, TCP_IP, TCP_PORT, socket, connects, serialized, cur,
                   outer, out, ret, strVersion, strRet, served, inflight, calls,
                   metaVars, convVars>>

getStatus_sendPayload(c) == SendPayload(c, "getStatus")

getStatus_readFeedback(c) ==
    /\ pc[c] = "recv"
    /\ cur[c] = "getStatus"
    /\ getFeedback(c)
    /\ Finish(c, getStatus_parse(Head(inflight).bytes))
    /\ UNCHANGED <<client, TCP_IP, TCP_PORT, socket, connects, serialized, cur,
                   wire, served, calls, metaVars, convVars>>

(***************************************************************************)
(* IM.TCPIP.__str__ : self.getVersion(), then self.getStatus(), then the   *)
(* formatting; the two calls run through the steps above.                  *)
(***************************************************************************)
str_call(c) ==
    /\ MayStart(c, 2)
    /\ SendHeader(c, "getVersion", "str")
    /\ calls' = calls + 2
    /\ strRet' = [strRet EXCEPT ![c] = NoResult]
    /\ UNCHANGED <<client, TCP_IP, TCP_PORT, socket, connects, serialized,
                   strVersion, served, inflight, metaVars, convVars>>

str_getStatus(c) ==
    /\ pc[c] = "str_status"
    /\ SendHeader(c, "getStatus", "str")
    /\ UNCHANGED <<client, TCP_IP, TCP_PORT, socket, connects, serialized,
                   strVersion, strRet, served, inflight, calls, metaVars,
                   convVars>>

(***************************************************************************)
(* The server at the other end of the socket: it reads the stream in the   *)
(* order written, up to the end of the next command payload, and answers   *)
(* that command with one response.                                         *)
(***************************************************************************)
IsCommand(data) == data \in {getVersion_payload, getStatus_payload}

Server ==
    /\ \E i \in (served + 1)..Len(wire) : IsCommand(wire[i].data)
    /\ LET next == CHOOSE i \in (served + 1)..Len(wire) :
                       /\ IsCommand(wire[i].data)
                       /\ \A j \in (served + 1)..(i - 1) : ~IsCommand(wire[j].data)
       IN  /\ served' = next
           /\ \E r \in Responses :
                 inflight' = Append(inflight,
                     [bytes |-> r, to |-> wire[next].by,
                      re |-> IF wire[next].data = getVersion_payload
                             THEN "getVersion" ELSE "getStatus"])
    /\ UNCHANGED <<client, TCP_IP, TCP_PORT, socket, connects, serialized, pc,
                   cur, outer, out, ret, strVersion, strRet, events, wire,
                   calls, metaVars, convVars>>

(***************************************************************************)
(* Specifications.                                                         *)
(***************************************************************************)
MetaIdle == model = "IM03" /\ imageName = <<>> /\ called = "none" /\ result = NoResult
ConvIdle == cargs = <<>> /\ cout = <<>>
TcpIdle ==
    /\ client = "none"
    /\ TCP_IP = "" /\ TCP_PORT = 0 /\ socket = 0 /\ connects = 0
    /\ pc = [c \in Callers |-> "idle"]
    /\ cur = [c \in Callers |-> "none"]
    /\ outer = [c \in Callers |-> "none"]
    /\ out = [c \in Callers |-> <<>>]
    /\ ret = [c \in Callers |-> NoResult]
    /\ strVersion = [c \in Callers |-> <<>>]
    /\ strRet = [c \in Callers |-> NoResult]
    /\ events = [c \in Callers |-> <<>>]
    /\ wire = <<>> /\ served = 0 /\ inflight = <<>> /\ calls = 0

\* The client: before construction, with callers that serialize or not.
Init ==
    /\ TcpIdle
    /\ serialized \in BOOLEAN
    /\ MetaIdle
    /\ ConvIdle

Next ==
    \/ \E ip \in Hosts, port \in Ports : TCPIP_init(ip, port)
    \/ \E c \in Callers : getVersion_call(c)
    \/ \E c \in Callers : getVersion_sendPayload(c)
    \/ \E c \in Callers : getVersion_readFeedback(c)
    \/ \E c \in Callers : getStatus_call(c)
    \/ \E c \in Callers : getStatus_sendPayload(c)
    \/ \E c \in Callers : getStatus_readFeedback(c)
    \/ \E c \in Callers : str_call(c)
    \/ \E c \in Callers : str_getStatus(c)
    \/ Server

Spec == Init /\ [][Next]_vars

\* The metadata decoders applied to a filename.
InitMetadata ==
    /\ model \in Models
    /\ imageName \in FileNames(model)
    /\ called = "none"
    /\ result = NoResult
    /\ ConvIdle
    /\ TcpIdle
    /\ serialized = TRUE

SpecMetadata == InitMetadata /\ [][NextMetadata]_vars

\* The coordinate converter applied to its arguments.
InitConvert ==
    /\ cargs \in ConvertInputs
    /\ cout = <<>>
    /\ MetaIdle
    /\ TcpIdle
    /\ serialized = TRUE

SpecConvert == InitConvert /\ [][NextConvert]_vars

(***************************************************************************)
(* Properties of the metadata decoders (SpecMetadata).                     *)
(***************************************************************************)
OnExample == \/ model = "IM03" /\ imageName = ExampleIM03
             \/ model = "IM04" /\ imageName = ExampleIM04

\* C1: on the IM03 example filename getWellId returns "A003", getWellColumn 3
\* and getWellRow 1; on the IM04 example filename getWellId returns "A001",
\* getWellColumn 1 and getWellRow 1.
C1_ExampleWell ==
    /\ (model = "IM03" /\ imageName = ExampleIM03) =>
          /\ called = "getWellId" => result = Return(<<"A", "0", "0", "3">>)
          /\ called = "getWellColumn" => result = Return(3)
          /\ called = "getWellRow" => result = Return(1)
    /\ (model = "IM04" /\ imageName = ExampleIM04) =>
          /\ called = "getWellId" => result = Return(<<"A", "0", "0", "1">>)
          /\ called = "getWellColumn" => result = Return(1)
          /\ called = "getWellRow" => result = Return(1)

C1_Witness ==
    model = "IM04" /\ imageName = ExampleIM04 /\ called = "getWellRow"
        /\ result.kind = "return"

\* The pixel size decoded from the filename by the class's getPixelSize_um.
DecodedPixelSize ==
    IF model = "IM03" THEN IM03_getPixelSize_um(imageName)
    ELSE IM04_getPixelSize_um(imageName)

TablePixelSizes == {PixelSize_3_25, PixelSize_1_625, PixelSize_0_650, PixelSize_0_325}

\* C2: for both classes, getObjectiveMagnification and getObjectiveNA raise
\* the KeyError whenever the decoded pixel size is none of 3.25, 1.625, 0.650
\* and 0.325.
C2_LookupFailure ==
    (/\ called \in {"getObjectiveMagnification", "getObjectiveNA"}
     /\ DecodedPixelSize.kind = "return"
     /\ DecodedPixelSize.val \notin TablePixelSizes)
    => result = Raise("KeyError")

\* C3: for both classes, a PX field of 32500, 16250, 06500 or 03250 makes
\* getObjectiveMagnification return 2, 4, 10, 20 and getObjectiveNA return
\* 0.06, 0.13, 0.3, 0.45 respectively.
ExpectedMag ==
    (<<"3", "2", "5", "0", "0">> :> 2) @@ (<<"1", "6", "2", "5", "0">> :> 4) @@
    (<<"0", "6", "5", "0", "0">> :> 10) @@ (<<"0", "3", "2", "5", "0">> :> 20)
ExpectedNA ==
    (<<"3", "2", "5", "0", "0">> :> NA_0_06) @@ (<<"1", "6", "2", "5", "0">> :> NA_0_13) @@
    (<<"0", "6", "5", "0", "0">> :> NA_0_3) @@ (<<"0", "3", "2", "5", "0">> :> NA_0_45)

C3_ObjectiveFromPixelSize ==
    PixelField(model, imageName) \in DOMAIN ExpectedMag =>
        /\ called = "getObjectiveMagnification" =>
              result = Return(ExpectedMag[PixelField(model, imageName)])
        /\ called = "getObjectiveNA" =>
              result = Return(ExpectedNA[PixelField(model, imageName)])

\* C4 as stated: getChannelIndex returns one of 1, 3, 5 on each of the two
\* example filenames.
C4_ChannelOneThreeFive ==
    (OnExample /\ called = "getChannelIndex") =>
        (result.kind = "return" /\ result.val \in {1, 3, 5})

\* C4, amended: getChannelIndex returns 6 on each of the two example
\* filenames (both carry the field CO6).
C4_ChannelOfExamples ==
    (OnExample /\ called = "getChannelIndex") => result = Return(6)

C4_Witness ==
    model = "IM03" /\ imageName = ExampleIM03 /\ called = "getChannelIndex"
        /\ result.kind = "return"

(***************************************************************************)
(* Property of the coordinate converter (SpecConvert).                     *)
(***************************************************************************)
AtImageCentre ==
    /\ cargs.Xpix = 1024 /\ cargs.Ypix = 1024
    /\ cargs.Image_Width = 2048 /\ cargs.Image_Height = 2048

\* C5: for every stage centre and pixel size, the pixel (1024, 1024) of a
\* 2048 x 2048 image converts to the stage centre rounded to 3 decimals.
C5_CentrePixel ==
    (cout # <<>> /\ AtImageCentre) =>
        cout = <<round3(2 * cargs.X0nm), round3(2 * cargs.Y0nm)>>

\* The centre pixel converted, with a stage centre that rounding changes.
C5_Witness ==
    /\ cout # <<>> /\ AtImageCentre
    /\ cargs.X0nm = 14580499 /\ cargs.Y0nm = 11262501
    /\ cout = <<14580, 11263>>

(***************************************************************************)
(* Properties of the TCPIP client (Spec).                                  *)
(***************************************************************************)
\* Caller c has returned from (or raised in) its last getVersion/getStatus.
Completed(c) == Len(events[c]) >= 3 /\ ret[c].kind # "none"

SeparatorPositions(o) == {i \in 1..Len(o) : o[i] = US}

WellFormed(o) ==
    /\ Cardinality(SeparatorPositions(o)) = 1
    /\ o[Len(o)] = ETX

\* The bytes strictly between the only separator and the last byte.
Between(o) ==
    LET i == CHOOSE j \in SeparatorPositions(o) : TRUE
    IN  [k \in 1..(Len(o) - 1 - i) |-> o[i + k]]

\* C6: when the response holds exactly one 0x1F and ends with ETX, getVersion
\* and getStatus return the bytes strictly between the two, decoded as text.
C6_ExtractsPayload ==
    \A c \in Callers :
        (Completed(c) /\ out[c] # <<>> /\ WellFormed(out[c])) =>
            ret[c] = decode(Between(out[c]))

\* Both methods have returned the text of a well-formed response.
C6_Witness ==
    \E c, d \in Callers :
        /\ Completed(c) /\ cur[c] = "getVersion"
        /\ Completed(d) /\ cur[d] = "getStatus"
        /\ out[c] = <<STX, 79, US, 82, 100, ETX>> /\ ret[c] = Return(Str(<<82, 100>>))
        /\ out[d] = <<STX, 79, US, 82, 100, ETX>> /\ ret[d] = Return(Str(<<82, 100>>))

\* C7: a call sends its header once, then its own payload once, then reads
\* once, in this order, and nothing else.
CallEvents(c) ==
    <<SendEvent(Header(cur[c])), SendEvent(Payload(cur[c])), [ev |-> "recv"]>>

EventKinds(c) ==
    [i \in 1..Len(events[c]) |->
        IF events[c][i].ev = "recv" THEN [ev |-> "recv"] ELSE events[c][i]]

C7_HeaderPayloadRead ==
    \A c \in Callers :
        /\ pc[c] = "payload" => EventKinds(c) = SubSeq(CallEvents(c), 1, 1)
        /\ pc[c] = "recv" => EventKinds(c) = SubSeq(CallEvents(c), 1, 2)
        /\ (pc[c] \in {"idle", "str_status"} /\ cur[c] # "none") =>
              EventKinds(c) = CallEvents(c)

\* A getVersion and a getStatus have both run to their end.
C7_Witness ==
    \E c, d \in Callers :
        /\ pc[c] = "idle" /\ cur[c] = "getVersion" /\ Len(events[c]) = 3
        /\ pc[d] = "idle" /\ cur[d] = "getStatus" /\ Len(events[d]) = 3

\* C8: construction makes one connect attempt, and no getVersion, getStatus
\* or __str__ step changes the client's socket, host or port, or connects.
C8_OneSocket ==
    /\ [](client # "none" => connects = 1)
    /\ [][client = "connected" =>
             /\ socket' = socket
             /\ TCP_IP' = TCP_IP
             /\ TCP_PORT' = TCP_PORT
             /\ connects' = connects
             /\ client' = client]_vars

\* A __str__ and another call have completed on the socket of construction.
C8_Witness ==
    \E c, d \in Callers :
        /\ c # d
        /\ strRet[c].kind = "return" /\ pc[c] = "idle"
        /\ ret[d].kind = "return" /\ pc[d] = "idle"
        /\ client = "connected" /\ socket = 1 /\ connects = 1
        /\ TCP_IP = "127.0.0.1" /\ TCP_PORT = Default_TCP_PORT

\* The wire holds (header, that call's payload) pairs, the last one possibly
\* still without its payload.
WirePaired ==
    \A i \in 1..Len(wire) :
        i % 2 = 1 =>
            \E m \in {"getVersion", "getStatus"} :
                /\ wire[i].data = Header(m)
                /\ i + 1 <= Len(wire) =>
                      wire[i + 1] = [by |-> wire[i].by, data |-> Payload(m)]

\* Every response read by a caller answers that caller's own request.
ReadsOwn ==
    \A c \in Callers :
        \A i \in 1..Len(events[c]) :
            events[c][i].ev = "recv" =>
                (events[c][i].to = c /\ events[c][i].re = cur[c])

\* C9: with the calls serialized by the callers, the wire is well paired and
\* every caller reads the response to its own request; without, a state with
\* interleaved writes and a crossed read is reachable (C9_Witness).
C9_SerializedSafe == serialized => (WirePaired /\ ReadsOwn)

C9_Witness == ~serialized /\ ~WirePaired /\ ~ReadsOwn

\* C10: when the response holds no 0x1F, the call reports no malformed
\* response: it returns the response without its last byte, decoded as text.
AllButLast(o) == [k \in 1..(Len(o) - 1) |-> o[k]]

C10_NoSeparator ==
    \A c \in Callers :
        (Completed(c) /\ SeparatorPositions(out[c]) = {}) =>
            /\ ret[c] = decode(IF out[c] = <<>> THEN <<>> ELSE AllButLast(out[c]))
            /\ (\A k \in 1..Len(out[c]) : out[c][k] < 128) =>
                  ret[c] = Return(Str(IF out[c] = <<>> THEN <<>> ELSE AllButLast(out[c])))

C10_Witness ==
    \E c \in Callers :
        /\ Completed(c)
        /\ out[c] = <<STX, 82, ETX>>
        /\ ret[c] = Return(Str(<<STX, 82>>))

=============================================================================
